---------------------------- MODULE Spec2Model ----------------------------
(***************************************************************************)
(* A model of src/src/components/LogisticsObjectForm.jsx:                  *)
(*   - the typed-value codec (createTypedValue, extractValue and the two   *)
(*     inline encoders of handleFieldChange and of the fieldset onChange), *)
(*   - the schema resolver generateFormFields,                             *)
(*   - the reference field of FormField (option loading, direct input),    *)
(*   - the record store of LogisticsObjectForm (setFormData, the 500 ms    *)
(*     debounce and the onSubmit effect).                                  *)
(*                                                                         *)
(* JavaScript values are tagged records.  A string is a sequence of        *)
(* one-character strings, so that parseInt, parseFloat, toLowerCase and    *)
(* Date.parse are computed and not assumed.  A number is held as the       *)
(* numeral String() prints for it, so String(number) reads the numeral and *)
(* the parsers are the ones that have to produce it in canonical form.     *)
(***************************************************************************)
EXTENDS Integers, Sequences, FiniteSets, TLC

VARIABLES
    \* ---- codec runs: one plain value pushed through each encoder
    cv,         \* the plain value
    ck,         \* the dataType the encoders are called with
    cft,        \* the field.type handleFieldChange is called with
    viaArray,   \* createTypedValue(cv, ck), the array element path
    viaTop,     \* what handleFieldChange stores for (cv, ck)
    viaChild,   \* what the fieldset onChange stores for (cv, ck)
    decoded,    \* extractValue(viaArray, ck)
    \* ---- schema resolution
    columns,    \* the column list handed to generateFormFields
    store,      \* the schema files that can be imported: type name -> columns
    fields,     \* the resolved descriptors
    rpc,        \* "idle" | "ready" | "done"
    \* ---- one reference FormField
    fpc,            \* "idle" | "live"
    fieldCfg,       \* the field prop: [codelist, valueIRI]
    value,          \* the value prop (the '@id' of the record's entry)
    referenceOptions,
    loading,
    dropdownOpen,
    useDirectInput,
    inflight,       \* the pending loadReferenceOptions call, or NoLoad
    lastLoad,       \* history: how the last finished load ended
    switched,       \* history: the user has operated the switch
    \* ---- the record store of LogisticsObjectForm
    mpc,            \* "idle" | "mounted" | "unmounted"
    formStructure,  \* Null while loading, then the descriptors
    formLoading,    \* the form's own loading flag
    formData,       \* the committed record, with its object identity
    queue,          \* updaters passed to setFormData, not yet applied
    debouncedFormData,
    timers,         \* pending setTimeout callbacks
    delivered,      \* history: every onSubmit call
    sinceEdit,      \* history: time since the last commit of an edit
    lastCall,       \* history: the last handler call
    written,        \* history: last encoded value handed to setFormData per field
    nEdits,         \* history: number of handler calls
    nBursts,        \* history: number of bursts of edits begun
    burstSpan,      \* history: time from the first to the last commit of the burst
    lastBatch,      \* history: the updaters the last render applied
    initialData,    \* the initialData prop
    nextId          \* object identities handed out so far

codecVars == <<cv, ck, cft, viaArray, viaTop, viaChild, decoded>>
resolverVars == <<columns, store, fields, rpc>>
fieldVars == <<fpc, fieldCfg, value, referenceOptions, loading, dropdownOpen,
               useDirectInput, inflight, lastLoad, switched>>
formVars == <<mpc, formStructure, formLoading, formData, queue,
              debouncedFormData, timers, delivered, sinceEdit, lastCall,
              written, nEdits, nBursts, burstSpan, lastBatch, initialData,
              nextId>>
vars == <<codecVars, resolverVars, fieldVars, formVars>>

---------------------------------------------------------------------------
(* Bounds of the model. *)

\* longest string drawn over Chars as a plain input
MaxLen == 3
\* longest column list handed to the resolver
MaxCols == 3
\* handler calls in one run of the store
MaxEdits == 3
\* updaters that may wait for one render
MaxQueue == 2
\* the step of the clock
TickUnit == 250

---------------------------------------------------------------------------
(* Strings. *)

Digits == <<"0", "1", "2", "3", "4", "5", "6", "7", "8", "9">>

IsDigit(c) == \E i \in 1..10 : Digits[i] = c

DigitVal(c) == (CHOOSE i \in 1..10 : Digits[i] = c) - 1

\* The decimal numeral of a natural number.
RECURSIVE NatToStr(_)
NatToStr(n) ==
    IF n < 10 THEN <<Digits[n + 1]>>
    ELSE NatToStr(n \div 10) \o <<Digits[(n % 10) + 1]>>

IntToStr(n) == IF n < 0 THEN <<"-">> \o NatToStr(0 - n) ELSE NatToStr(n)

\* The value of a string of digits.
RECURSIVE StrToNat(_)
StrToNat(s) ==
    IF s = <<>> THEN 0
    ELSE 10 * StrToNat(SubSeq(s, 1, Len(s) - 1)) + DigitVal(s[Len(s)])

\* The longest prefix of s made of digits.
RECURSIVE DigitPrefix(_)
DigitPrefix(s) ==
    IF s = <<>> \/ ~IsDigit(s[1]) THEN <<>>
    ELSE <<s[1]>> \o DigitPrefix(Tail(s))

RECURSIVE StripLeadingZeros(_)
StripLeadingZeros(s) ==
    IF Len(s) > 1 /\ s[1] = "0" THEN StripLeadingZeros(Tail(s)) ELSE s

RECURSIVE StripTrailingZeros(_)
StripTrailingZeros(s) ==
    IF s # <<>> /\ s[Len(s)] = "0"
    THEN StripTrailingZeros(SubSeq(s, 1, Len(s) - 1))
    ELSE s

RECURSIVE TrimStart(_)
TrimStart(s) == IF s # <<>> /\ s[1] = " " THEN TrimStart(Tail(s)) ELSE s

AllZeros(s) == \A i \in 1..Len(s) : s[i] = "0"

StrNaN == <<"N", "a", "N">>
StrTrue == <<"t", "r", "u", "e">>
StrFalse == <<"f", "a", "l", "s", "e">>
StrUndefined == <<"u", "n", "d", "e", "f", "i", "n", "e", "d">>

---------------------------------------------------------------------------
(* JavaScript values. *)

Str(s) == [t |-> "str", s |-> s]
Num(s) == [t |-> "num", s |-> s]
Bool(b) == [t |-> "bool", b |-> b]
Undefined == [t |-> "undef"]
NaN == Num(StrNaN)

\* {'@id': v}
IdObject(v) == [t |-> "id", id |-> v]
\* {'@type': iri, '@value': s}
Literal(iri, s) == [t |-> "lit", type |-> iri, value |-> s]

XsdBoolean == "http://www.w3.org/2001/XMLSchema#boolean"
XsdInteger == "http://www.w3.org/2001/XMLSchema#integer"
XsdDouble == "http://www.w3.org/2001/XMLSchema#double"
XsdDateTime == "http://www.w3.org/2001/XMLSchema#dateTime"

\* String(v) of a primitive.
JsString(v) ==
    CASE v.t = "str" -> v.s
      [] v.t = "num" -> v.s
      [] v.t = "bool" -> IF v.b THEN StrTrue ELSE StrFalse
      [] v.t = "undef" -> StrUndefined

\* ToBoolean(v): what `!v` and `v || x` test.
Truthy(v) ==
    CASE v.t = "str" -> v.s # <<>>
      [] v.t = "num" -> v.s \notin {<<"0">>, StrNaN}
      [] v.t = "bool" -> v.b
      [] v.t = "undef" -> FALSE
      [] OTHER -> TRUE

\* a || b
OrElse(a, b) == IF Truthy(a) THEN a ELSE b

\* parseInt(v, 10): optional sign, then the leading digits; NaN without one.
ParseInt(v) ==
    LET s == TrimStart(JsString(v))
        neg == s # <<>> /\ s[1] = "-"
        body == IF s # <<>> /\ s[1] \in {"-", "+"} THEN Tail(s) ELSE s
        ds == DigitPrefix(body)
    IN  IF ds = <<>> THEN NaN
        ELSE IF AllZeros(ds) THEN Num(<<"0">>)
        ELSE Num((IF neg THEN <<"-">> ELSE <<>>) \o StripLeadingZeros(ds))

\* parseFloat(v): optional sign, digits, optionally a point and digits; NaN
\* when neither part holds a digit.  (No exponent: the inputs hold no "e".)
ParseFloat(v) ==
    LET s == TrimStart(JsString(v))
        neg == s # <<>> /\ s[1] = "-"
        body == IF s # <<>> /\ s[1] \in {"-", "+"} THEN Tail(s) ELSE s
        ip == DigitPrefix(body)
        rest == SubSeq(body, Len(ip) + 1, Len(body))
        fp == IF rest # <<>> /\ rest[1] = "." THEN DigitPrefix(Tail(rest))
              ELSE <<>>
        frac == StripTrailingZeros(fp)
        int == IF ip = <<>> THEN <<"0">> ELSE StripLeadingZeros(ip)
    IN  IF ip = <<>> /\ fp = <<>> THEN NaN
        ELSE IF AllZeros(int) /\ frac = <<>> THEN Num(<<"0">>)
        ELSE Num((IF neg THEN <<"-">> ELSE <<>>) \o int
                 \o (IF frac = <<>> THEN <<>> ELSE <<".">> \o frac))

LeapsUpTo(y) == (y \div 4) - (y \div 100) + (y \div 400)

\* Days from 1970-01-01 to January 1st of year y.
DaysToYear(y) == 365 * (y - 1970) + LeapsUpTo(y - 1) - LeapsUpTo(1969)

\* Date.parse(v) on the strings of DateInputs: the year-only form "YYYY" of
\* the date-time string format (UTC midnight of January 1st of that year),
\* and NaN for a string that holds no digit.  The milliseconds are printed
\* from the seconds, which fit the integers of the checker.
DateParse(v) ==
    LET s == JsString(v)
        secs == DaysToYear(StrToNat(s)) * 86400
    IN  IF Len(s) = 4 /\ \A i \in 1..4 : IsDigit(s[i])
        THEN (IF secs = 0 THEN Num(<<"0">>)
              ELSE Num(IntToStr(secs) \o <<"0", "0", "0">>))
        ELSE NaN

---------------------------------------------------------------------------
(* The typed-value codec. *)

\* const createTypedValue = (val = '', dataType) => ...
createTypedValue(val0, dataType) ==
    LET val == IF val0 = Undefined THEN Str(<<>>) ELSE val0
    IN  CASE dataType = "url" -> IdObject(val)
          [] dataType = "boolean" ->
                Literal(XsdBoolean,
                        JsString(Bool(val = Str(StrTrue) \/ val = Bool(TRUE))))
          [] dataType = "integer" -> Literal(XsdInteger, JsString(val))
          [] dataType = "double" -> Literal(XsdDouble, JsString(val))
          [] dataType = "datetime" ->
                Literal(XsdDateTime, JsString(DateParse(val)))
          [] OTHER -> val

\* typedValue['@id'] and typedValue['@value']
GetId(v) == IF v.t = "id" THEN v.id ELSE Undefined
GetValue(v) == IF v.t = "lit" THEN Str(v.value) ELSE Undefined

\* A decoder that hands back the typed value itself.
extractValueNoUnwrap(typedValue, dataType) ==
    IF ~Truthy(typedValue) THEN Str(<<>>) ELSE typedValue

\* const extractValue = (typedValue, dataType) => ...
extractValue(typedValue, dataType) ==
    IF ~Truthy(typedValue) THEN Str(<<>>)
    ELSE CASE dataType = "url" -> OrElse(GetId(typedValue), Str(<<>>))
           [] dataType \in {"boolean", "integer", "double", "datetime"} ->
                OrElse(GetValue(typedValue), Str(<<>>))
           [] OTHER -> typedValue

StrFieldset == <<"f", "i", "e", "l", "d", "s", "e", "t">>
StrSelect == <<"s", "e", "l", "e", "c", "t">>

\* The newValue handleFieldChange computes for a value that is no array.
HandleFieldChangeValue(val, fieldDataType, fieldType) ==
    CASE fieldDataType = "url" ->
            IF fieldType # StrFieldset THEN IdObject(val) ELSE val
      [] fieldDataType = "boolean" ->
            Literal(XsdBoolean,
                    JsString(Bool(val = Str(StrTrue) \/ val = Bool(TRUE))))
      [] fieldDataType = "integer" ->
            Literal(XsdDouble, JsString(ParseInt(val)))
      [] fieldDataType = "double" ->
            Literal(XsdDouble, JsString(ParseFloat(val)))
      [] fieldDataType = "datetime-local" ->
            Literal(XsdDateTime, JsString(DateParse(val)))
      [] OTHER -> val

\* The processedValue the onChange of a fieldset's child computes.
FieldsetProcessedValue(newValue, dataType) ==
    CASE dataType = "url" -> IdObject(newValue)
      [] dataType = "boolean" ->
            Literal(XsdBoolean,
                    JsString(Bool(newValue = Str(StrTrue)
                                  \/ newValue = Bool(TRUE))))
      [] dataType = "integer" ->
            Literal(XsdInteger, JsString(ParseInt(newValue)))
      [] dataType = "double" ->
            Literal(XsdDouble, JsString(ParseFloat(newValue)))
      [] dataType = "datetime" ->
            Literal(XsdDateTime, JsString(DateParse(newValue)))
      [] OTHER -> newValue

---------------------------------------------------------------------------
(* The schema resolver. *)

UpperChars == <<"A", "B", "C", "D", "E", "F", "G", "H", "I", "J", "K", "L", "M",
                "N", "O", "P", "Q", "R", "S", "T", "U", "V", "W", "X", "Y", "Z">>
LowerChars == <<"a", "b", "c", "d", "e", "f", "g", "h", "i", "j", "k", "l", "m",
                "n", "o", "p", "q", "r", "s", "t", "u", "v", "w", "x", "y", "z">>

LowerChar(c) ==
    IF \E i \in 1..26 : UpperChars[i] = c
    THEN LowerChars[CHOOSE i \in 1..26 : UpperChars[i] = c]
    ELSE c

\* A comparison that keeps the case of the type name.
ToLowerCaseKeepsCase(s) == s

\* s.toLowerCase()
ToLowerCase(s) == [i \in 1..Len(s) |-> LowerChar(s[i])]

StrString == <<"s", "t", "r", "i", "n", "g">>
StrBoolean == <<"b", "o", "o", "l", "e", "a", "n">>
StrInteger == <<"i", "n", "t", "e", "g", "e", "r">>
StrDouble == <<"d", "o", "u", "b", "l", "e">>
StrDatetime == <<"d", "a", "t", "e", "t", "i", "m", "e">>

\* const basicTypes = ['string', 'boolean', 'integer', 'double', 'datetime']
basicTypes == {StrString, StrBoolean, StrInteger, StrDouble, StrDatetime}

\* The dataType the inner switch gives a basic type.
BasicDataType(lower) ==
    CASE lower = StrBoolean -> "boolean"
      [] lower = StrInteger -> "integer"
      [] lower = StrDouble -> "double"
      [] lower = StrDatetime -> "datetime-local"
      [] OTHER -> "text"

\* The object literal the loop starts every field from.
FieldOfColumn(column) ==
    [name |-> column.name,
     label |-> IF column.name # "" THEN column.name ELSE column.description,
     type |-> column.type,
     schemaType |-> column.schemaType,
     array |-> column.array,
     required |-> FALSE,
     description |-> column.description,
     valueIRI |-> column.valueIRI,
     codelist |-> column.codelist]

\* await import(`../assets/logistics-objects/Embedded.${type}.json`) resolves
\* for the types that have a file, and rejects for the others.
CanImport(schemas, type) == type \in DOMAIN schemas

\* const generateFormFields = async (columns) => ...
\* schemas stands for the files under assets/logistics-objects.
RECURSIVE generateFormFields(_, _)
generateFormFields(cols, schemas) ==
    [i \in 1..Len(cols) |->
        LET column == cols[i]
            field == FieldOfColumn(column)
        IN  CASE column.schemaType = "Embedded" ->
                    IF CanImport(schemas, column.type)
                    THEN field @@ [dataType |-> "fieldset",
                                   fields |-> generateFormFields(
                                                  schemas[column.type], schemas)]
                    ELSE field @@ [dataType |-> "fieldset"]
              [] column.schemaType = "Enum" ->
                    [field EXCEPT !.type = StrSelect]
                        @@ [dataType |-> "url", options |-> <<>>]
              [] OTHER ->
                    IF ToLowerCase(column.type) \in basicTypes
                    THEN field @@ [dataType |->
                                      BasicDataType(ToLowerCase(column.type))]
                    ELSE field @@ [dataType |-> "url",
                                   referenceType |-> column.type]]

---------------------------------------------------------------------------
(* One reference FormField (dataType 'url', not an array): the option list  *)
(* of its Select, the loading flag and the direct-input switch.  Option      *)
(* identifiers and the value prop are compared for equality only and are     *)
(* plain strings here; "" is the empty value.                                *)

Ids == {"A", "B", "C"}

\* s.split('#')
RECURSIVE SplitHash(_)
SplitHash(s) ==
    IF \A i \in 1..Len(s) : s[i] # "#" THEN <<s>>
    ELSE LET k == CHOOSE i \in 1..Len(s) :
                      s[i] = "#" /\ \A j \in 1..(i - 1) : s[j] # "#"
         IN  <<SubSeq(s, 1, k - 1)>> \o SplitHash(SubSeq(s, k + 1, Len(s)))

\* assets/codelists/codelists.json: codelist name -> its items
codelists ==
    (<<"U">> :> <<[id |-> "A", description |-> "a"],
                  [id |-> "B", description |-> "b"]>>)

\* The field props the model runs a FormField with.
FieldCfgs ==
    {[codelist |-> TRUE, valueIRI |-> Str(<<"c", "#", "U">>)],
     [codelist |-> TRUE, valueIRI |-> Str(<<"c", "#", "V">>)],
     [codelist |-> TRUE, valueIRI |-> Str(<<"c">>)],
     [codelist |-> TRUE, valueIRI |-> Undefined],
     [codelist |-> FALSE, valueIRI |-> Str(<<"c", "#", "O">>)]}

\* What getLogisticsObjects can resolve with: a graph of objects or a single
\* object; an object is its '@id', and "" stands for the object {} .
Responses ==
    {[graph |-> TRUE, items |-> <<"A", "B">>],
     [graph |-> TRUE, items |-> <<"B", "">>],
     [graph |-> FALSE, items |-> <<"A">>],
     [graph |-> FALSE, items |-> <<"">>]}

NoLoad == [pending |-> FALSE]

\* options.some(option => option['@id'] === v)
SomeOption(options, v) == \E i \in 1..Len(options) : options[i].id = v

\* xs.filter(obj => obj && Object.keys(obj).length > 0)
RECURSIVE FilterNonEmpty(_)
FilterNonEmpty(xs) ==
    IF xs = <<>> THEN <<>>
    ELSE (IF xs[1] # "" THEN <<xs[1]>> ELSE <<>>) \o FilterNonEmpty(Tail(xs))

\* The codelist branch of loadReferenceOptions: the options it computes.
CodelistValues(field) ==
    LET parts == SplitHash(field.valueIRI.s)
        items == IF Len(parts) >= 2 /\ parts[2] \in DOMAIN codelists
                 THEN codelists[parts[2]] ELSE <<>>
    IN  [i \in 1..Len(items) |->
            [id |-> items[i].id, description |-> items[i].description]]

\* The catalog branch: (response['@graph'] || [response]).filter(...)
CatalogObjects(response) ==
    LET objs == FilterNonEmpty(response.items)
    IN  [i \in 1..Len(objs) |-> [id |-> objs[i], description |-> ""]]

\* The effect on [value, referenceOptions, loading]: the flag it leaves.
DirectInputEffect(flag, val, options, isLoading) ==
    IF val # "" /\ ~SomeOption(options, val) /\ ~isLoading THEN TRUE ELSE flag

\* The Select calls onOpen.  The effect on [dropdownOpen] runs when the
\* flag changes, calls loadReferenceOptions, which sets loading and awaits.
DropdownOpens ==
    /\ fpc = "live" /\ ~useDirectInput /\ ~loading
    /\ dropdownOpen' = TRUE
    /\ IF ~dropdownOpen
       THEN /\ loading' = TRUE
            /\ inflight' = [pending |-> TRUE, value |-> value]
       ELSE UNCHANGED <<loading, inflight>>
    /\ UNCHANGED <<fieldCfg, value, referenceOptions, useDirectInput,
                   lastLoad, switched, fpc>>
    /\ UNCHANGED <<codecVars, resolverVars, formVars>>

\* The Select calls onClose without a choice.
DropdownCloses ==
    /\ fpc = "live" /\ ~useDirectInput /\ dropdownOpen
    /\ dropdownOpen' = FALSE
    /\ UNCHANGED <<fieldCfg, value, referenceOptions, loading, useDirectInput,
                   inflight, lastLoad, switched, fpc>>
    /\ UNCHANGED <<codecVars, resolverVars, formVars>>

\* loadReferenceOptions after its await, the try block running to its end.
LoadSucceeds(options) ==
    /\ referenceOptions' = options
    /\ loading' = FALSE
    /\ useDirectInput' =
          DirectInputEffect(
              useDirectInput \/ (inflight.value # ""
                                 /\ ~SomeOption(options, inflight.value)),
              value, options, FALSE)
    /\ lastLoad' = "loaded"

\* A catch block that leaves the options of the load before.
LoadFailsKeepsOptions ==
    /\ referenceOptions' = referenceOptions
    /\ loading' = FALSE
    /\ useDirectInput' =
          DirectInputEffect(useDirectInput \/ inflight.value # "",
                            value, referenceOptions, FALSE)
    /\ lastLoad' = "failed"

\* loadReferenceOptions when the try block throws: catch, then finally.
LoadFails ==
    /\ referenceOptions' = <<>>
    /\ loading' = FALSE
    /\ useDirectInput' =
          DirectInputEffect(useDirectInput \/ inflight.value # "",
                            value, <<>>, FALSE)
    /\ lastLoad' = "failed"

\* The pending loadReferenceOptions call runs on.  The codelist import or
\* the catalog request may fail; field.valueIRI.split throws on a field
\* without valueIRI.
LoadSettles ==
    /\ fpc = "live" /\ inflight.pending
    /\ \/ /\ fieldCfg.codelist /\ fieldCfg.valueIRI # Undefined
          /\ LoadSucceeds(CodelistValues(fieldCfg))
       \/ /\ ~fieldCfg.codelist
          /\ \E r \in Responses : LoadSucceeds(CatalogObjects(r))
       \/ LoadFails
    /\ inflight' = NoLoad
    /\ UNCHANGED <<fieldCfg, value, dropdownOpen, switched, fpc>>
    /\ UNCHANGED <<codecVars, resolverVars, formVars>>

\* A MenuItem of the open Select is chosen: onChange, then onClose.
SelectOption ==
    /\ fpc = "live" /\ ~useDirectInput /\ ~loading /\ dropdownOpen
    /\ \E v \in {referenceOptions[i].id : i \in 1..Len(referenceOptions)}
                \cup {""} :
          /\ value' = v
          /\ useDirectInput' =
                DirectInputEffect(useDirectInput, v, referenceOptions, loading)
    /\ dropdownOpen' = FALSE
    /\ UNCHANGED <<fieldCfg, referenceOptions, loading, inflight, lastLoad,
                   switched, fpc>>
    /\ UNCHANGED <<codecVars, resolverVars, formVars>>

\* The direct-input TextField is typed into.
TypeValue ==
    /\ fpc = "live" /\ useDirectInput
    /\ \E v \in Ids \cup {""} :
          /\ v # value
          /\ value' = v
          /\ useDirectInput' =
                DirectInputEffect(useDirectInput, v, referenceOptions, loading)
    /\ UNCHANGED <<fieldCfg, referenceOptions, loading, dropdownOpen, inflight,
                   lastLoad, switched, fpc>>
    /\ UNCHANGED <<codecVars, resolverVars, formVars>>

\* The "Direct URL Input" switch is operated.
ToggleDirectInput ==
    /\ fpc = "live"
    /\ useDirectInput' = ~useDirectInput
    /\ switched' = TRUE
    /\ UNCHANGED <<fieldCfg, value, referenceOptions, loading, dropdownOpen,
                   inflight, lastLoad, fpc>>
    /\ UNCHANGED <<codecVars, resolverVars, formVars>>

FieldIdle ==
    /\ fpc = "idle" /\ fieldCfg = [codelist |-> FALSE, valueIRI |-> Undefined]
    /\ value = "" /\ referenceOptions = <<>> /\ loading = FALSE
    /\ dropdownOpen = FALSE /\ useDirectInput = FALSE /\ inflight = NoLoad
    /\ lastLoad = "none" /\ switched = FALSE

\* A FormField after its first render and its effects.
InitField ==
    /\ fpc = "live"
    /\ fieldCfg \in FieldCfgs
    /\ value \in Ids \cup {""}
    /\ referenceOptions = <<>>
    /\ loading = FALSE
    /\ dropdownOpen = FALSE
    /\ useDirectInput = DirectInputEffect(FALSE, value, <<>>, FALSE)
    /\ inflight = NoLoad
    /\ lastLoad = "none"
    /\ switched = FALSE

NextField ==
    \/ DropdownOpens
    \/ DropdownCloses
    \/ LoadSettles
    \/ SelectOption
    \/ TypeValue
    \/ ToggleDirectInput

---------------------------------------------------------------------------
(* The record store of LogisticsObjectForm.                                 *)

\* setTimeout(..., 500)
DebounceDelay == 500

TypeInteger == <<"I", "n", "t", "e", "g", "e", "r">>
TypeParty == <<"P", "a", "r", "t", "y">>
TypeAddress == <<"A", "d", "d", "r", "e", "s", "s">>

Column(name, type, schemaType, array, iri) ==
    [name |-> name, description |-> "", type |-> type,
     schemaType |-> schemaType, array |-> array, valueIRI |-> iri,
     codelist |-> FALSE]

\* objectType.fullSchema.columns of the form the store is run with, and the
\* embedded schema files it needs.
FormColumns ==
    <<Column("count", TypeInteger, "Plain", FALSE, "iri:count"),
      Column("ref", TypeParty, "Plain", FALSE, "iri:Party"),
      Column("addr", TypeAddress, "Embedded", FALSE, "iri:Address")>>

FormSchemas ==
    (TypeAddress :> <<Column("x", StrInteger, "Plain", FALSE, "iri:x"),
                      Column("y", StrString, "Plain", FALSE, "iri:y")>>)

FieldNames == {FormColumns[i].name : i \in 1..Len(FormColumns)}
EmbKeys == {"@type", "x", "y"}

\* An embedded object: its keys, Undefined for a key it does not hold.
Emb(m) == [t |-> "emb", m |-> m]
EmptyEmb == [k \in EmbKeys |-> Undefined]
Iri(v) == [t |-> "iri", v |-> v]
IsArray(v) == v.t = "arr"

\* The values typed into a field of the form.
EditInputs(dataType) ==
    IF dataType = "integer" THEN {Str(<<"1">>), Str(<<"2">>)}
    ELSE {Str(<<"A">>)}

EmptyRecord == [n \in FieldNames |-> Undefined]

\* The initialData the form is mounted with: none, or an existing record.
InitialRecords ==
    {EmptyRecord,
     [EmptyRecord EXCEPT
        !["count"] = Literal(XsdInteger, <<"1">>),
        !["addr"] = Emb([EmptyEmb EXCEPT
                            !["@type"] = Iri("iri:Address"),
                            !["x"] = Literal(XsdInteger, <<"1">>),
                            !["y"] = Str(<<"2">>)])]}

NotLoaded == [loaded |-> FALSE]

\* prevData => ({ ...prevData, [fieldName]: newValue })
ApplyUpdater(prevData, u) == [prevData EXCEPT ![u.name] = u.val]

\* A store that keeps only the last updater of a batch.
ApplyQueueLastOnly(q, data) ==
    IF q = <<>> THEN data ELSE ApplyUpdater(data, q[Len(q)])

\* React runs the queued updaters in the order they were queued.
RECURSIVE ApplyQueue(_, _)
ApplyQueue(q, data) ==
    IF q = <<>> THEN data
    ELSE ApplyQueue(Tail(q), ApplyUpdater(data, q[1]))

\* A cleanup that clears nothing.
ClearTimerNothing(ts, of) == ts

\* An effect that arms the timer with the record of the render before.
DebounceEffectStale(ts, old, new) ==
    {t \in ts : t.snap.id # old.id} \cup {[left |-> DebounceDelay, snap |-> old]}

\* The cleanup of the debounce effect, clearTimeout(timer), for the effect
\* run of the render that committed formData `of`.
ClearTimer(ts, of) == {t \in ts : t.snap.id # of.id}

\* The debounce effect after a commit: the previous run's cleanup, then
\* setTimeout(() => setDebouncedFormData(formData), 500).
DebounceEffect(ts, old, new) ==
    ClearTimer(ts, old) \cup {[left |-> DebounceDelay, snap |-> new]}

\* { ...value, '@type': field.valueIRI, [subField.name]: processedValue }
FieldsetValue(val, field, subField, newValue) ==
    LET base == IF val.t = "emb" THEN val.m ELSE EmptyEmb
    IN  Emb([[base EXCEPT !["@type"] = Iri(field.valueIRI)]
                EXCEPT ![subField.name] =
                    FieldsetProcessedValue(newValue, subField.dataType)])

\* handleFieldChange: the updater it hands to setFormData.
handleFieldChange(fieldName, val, fieldDataType, fieldType) ==
    queue' = Append(queue,
                [name |-> fieldName,
                 val |-> IF IsArray(val) THEN val
                         ELSE HandleFieldChangeValue(val, fieldDataType,
                                                     fieldType)])

FormIdle ==
    /\ mpc = "idle" /\ formStructure = NotLoaded /\ formLoading = FALSE
    /\ formData = [data |-> EmptyRecord, id |-> 0]
    /\ debouncedFormData = formData /\ queue = <<>> /\ timers = {}
    /\ delivered = <<>> /\ sinceEdit = 0 /\ lastCall = [kind |-> "none"]
    /\ written = [n \in FieldNames |-> [set |-> FALSE]]
    /\ nEdits = 0 /\ nBursts = 0 /\ burstSpan = 0 /\ lastBatch = <<>>
    /\ initialData = EmptyRecord /\ nextId = 0

\* LogisticsObjectForm after its first render and its effects: the schema
\* is being loaded, the debounce timer is armed and onSubmit was called once.
InitForm ==
    /\ mpc = "mounted"
    /\ initialData \in InitialRecords
    /\ formData = [data |-> initialData, id |-> 0]
    /\ debouncedFormData = formData
    /\ formStructure = NotLoaded
    /\ formLoading = TRUE
    /\ queue = <<>>
    /\ timers = {[left |-> DebounceDelay, snap |-> formData]}
    /\ delivered = <<[snap |-> formData, quiet |-> 0, current |-> formData]>>
    /\ sinceEdit = 0
    /\ lastCall = [kind |-> "none"]
    /\ written = [n \in FieldNames |-> [set |-> FALSE]]
    /\ nEdits = 0 /\ nBursts = 0 /\ burstSpan = 0 /\ lastBatch = <<>>
    /\ nextId = 1

\* A render of a fieldset whose descriptor has no fields throws
\* (field.fields.map), and React unmounts the form.
Renderable(structure) ==
    \A i \in 1..Len(structure) :
        structure[i].dataType = "fieldset" /\ ~structure[i].array
            => "fields" \in DOMAIN structure[i]

\* loadFormStructure settles: the descriptors are set and loading ends.  The
\* embedded schema file may be missing.
LoadFormStructure ==
    /\ mpc = "mounted" /\ formLoading
    /\ formLoading' = FALSE
    /\ \E schemas \in {FormSchemas, <<>>} :
          LET structure == generateFormFields(FormColumns, schemas)
          IN  /\ formStructure' = [loaded |-> TRUE, fields |-> structure]
              /\ IF Renderable(structure)
                 THEN UNCHANGED <<mpc, timers>>
                 ELSE /\ mpc' = "unmounted"
                      /\ timers' = ClearTimer(timers, formData)
    /\ UNCHANGED <<formData, queue, debouncedFormData, delivered, sinceEdit,
                   lastCall, written, nEdits, nBursts, burstSpan, lastBatch,
                   initialData, nextId>>
    /\ UNCHANGED <<codecVars, resolverVars, fieldVars>>

\* The form is shown and a handler may run: no timer is due before it.
CanEdit ==
    /\ mpc = "mounted" /\ ~formLoading /\ formStructure.loaded
    /\ nEdits < MaxEdits /\ Len(queue) < MaxQueue
    /\ \A t \in timers : t.left > 0

\* The onChange of a top-level scalar or reference field.
FieldChange ==
    /\ CanEdit
    /\ \E i \in 1..Len(formStructure.fields) :
          LET field == formStructure.fields[i]
          IN  /\ field.dataType # "fieldset" /\ ~field.array
              /\ \E v \in EditInputs(field.dataType) :
                    /\ handleFieldChange(field.name, v, field.dataType,
                                         field.type)
                    /\ lastCall' = [kind |-> "field", name |-> field.name]
                    /\ written' = [written EXCEPT
                                      ![field.name] = [set |-> TRUE,
                                                       raw |-> v,
                                                       dataType |-> field.dataType,
                                                       type |-> field.type]]
    /\ nEdits' = nEdits + 1
    /\ UNCHANGED <<mpc, formStructure, formLoading, formData,
                   debouncedFormData, timers, delivered, sinceEdit, nBursts,
                   burstSpan, lastBatch, initialData, nextId>>
    /\ UNCHANGED <<codecVars, resolverVars, fieldVars>>

\* The onChange of a child of a fieldset: it merges into the value prop the
\* fieldset was rendered with, formData[field.name].
ChildChange ==
    /\ CanEdit
    /\ \E i \in 1..Len(formStructure.fields) :
          LET field == formStructure.fields[i]
          IN  /\ field.dataType = "fieldset" /\ ~field.array
              /\ \E j \in 1..Len(field.fields) :
                    LET subField == field.fields[j]
                    IN  \E v \in EditInputs(subField.dataType) :
                          LET fieldsetValue ==
                                  FieldsetValue(formData.data[field.name],
                                                field, subField, v)
                          IN  /\ handleFieldChange(field.name, fieldsetValue,
                                                   field.dataType, field.type)
                              /\ lastCall' =
                                    [kind |-> "child", name |-> field.name,
                                     child |-> subField.name, raw |-> v,
                                     dataType |-> subField.dataType,
                                     iri |-> field.valueIRI,
                                     before |-> ApplyQueue(queue, formData.data)
                                                    [field.name]]
                              /\ written' =
                                    [written EXCEPT
                                        ![field.name] =
                                            [set |-> TRUE,
                                             raw |-> fieldsetValue,
                                             dataType |-> field.dataType,
                                             type |-> field.type]]
    /\ nEdits' = nEdits + 1
    /\ UNCHANGED <<mpc, formStructure, formLoading, formData,
                   debouncedFormData, timers, delivered, sinceEdit, nBursts,
                   burstSpan, lastBatch, initialData, nextId>>
    /\ UNCHANGED <<codecVars, resolverVars, fieldVars>>

\* React applies the queued updaters, renders, and runs the debounce effect
\* for the new formData.
Render ==
    /\ mpc = "mounted" /\ queue # <<>>
    /\ formData' = [data |-> ApplyQueue(queue, formData.data), id |-> nextId]
    /\ nextId' = nextId + 1
    /\ queue' = <<>>
    /\ lastBatch' = queue
    /\ timers' = DebounceEffect(timers, formData, formData')
    /\ nBursts' = IF nBursts = 0 \/ sinceEdit >= DebounceDelay
                  THEN nBursts + 1 ELSE nBursts
    /\ burstSpan' = IF nBursts = 0 \/ sinceEdit >= DebounceDelay
                    THEN 0 ELSE burstSpan + sinceEdit
    /\ sinceEdit' = 0
    /\ UNCHANGED <<mpc, formStructure, formLoading, debouncedFormData,
                   delivered, lastCall, written, nEdits, initialData>>
    /\ UNCHANGED <<codecVars, resolverVars, fieldVars>>

Min(a, b) == IF a < b THEN a ELSE b

\* Time passes, up to the next timer that is due; a due timer fires first.
Tick ==
    /\ mpc # "idle" /\ queue = <<>>
    /\ \A t \in timers : t.left > 0
    /\ timers # {} \/ sinceEdit < DebounceDelay
    /\ LET maxStep == IF timers = {} THEN TickUnit
                      ELSE CHOOSE m \in {t.left : t \in timers} :
                               \A t \in timers : m <= t.left
           d == Min(TickUnit, maxStep)
       IN  /\ timers' = {[t EXCEPT !.left = t.left - d] : t \in timers}
           /\ sinceEdit' = Min(sinceEdit + d, DebounceDelay)
    /\ UNCHANGED <<mpc, formStructure, formLoading, formData, queue,
                   debouncedFormData, delivered, lastCall, written, nEdits,
                   nBursts, burstSpan, lastBatch, initialData, nextId>>
    /\ UNCHANGED <<codecVars, resolverVars, fieldVars>>

\* A due timer runs setDebouncedFormData(formData) with the formData of its
\* render.  A new object is a state change: the effect on
\* [debouncedFormData, onSubmit] calls onSubmit.  The same object is none.
TimerFires ==
    /\ mpc # "idle"
    /\ \E t \in timers :
          /\ t.left = 0
          /\ timers' = timers \ {t}
          /\ IF mpc = "mounted" /\ t.snap.id # debouncedFormData.id
             THEN /\ debouncedFormData' = t.snap
                  /\ delivered' = Append(delivered,
                                         [snap |-> t.snap, quiet |-> sinceEdit,
                                          current |-> formData])
             ELSE UNCHANGED <<debouncedFormData, delivered>>
    /\ UNCHANGED <<mpc, formStructure, formLoading, formData, queue,
                   sinceEdit, lastCall, written, nEdits, nBursts, burstSpan,
                   lastBatch, initialData, nextId>>
    /\ UNCHANGED <<codecVars, resolverVars, fieldVars>>

\* The form is unmounted: the cleanup of the debounce effect runs, and the
\* updaters not yet applied are dropped.
Unmount ==
    /\ mpc = "mounted"
    /\ mpc' = "unmounted"
    /\ timers' = ClearTimer(timers, formData)
    /\ queue' = <<>>
    /\ UNCHANGED <<formStructure, formLoading, formData, debouncedFormData,
                   delivered, sinceEdit, lastCall, written, nEdits, nBursts,
                   burstSpan, lastBatch, initialData, nextId>>
    /\ UNCHANGED <<codecVars, resolverVars, fieldVars>>

NextForm ==
    \/ LoadFormStructure
    \/ FieldChange
    \/ ChildChange
    \/ Render
    \/ Tick
    \/ TimerFires
    \/ Unmount

---------------------------------------------------------------------------
(* Codec runs: a plain value and a dataType, pushed through the encoder of  *)
(* each code path and back through extractValue.                            *)

Chars == {"0", "2", "4", "-", ".", "x"}

Strings == UNION {[1..n -> Chars] : n \in 0..MaxLen}

\* Strings, the two booleans and their spellings, some numbers, undefined.
PlainInputs ==
    {Str(s) : s \in Strings}
        \cup {Str(StrTrue), Str(StrFalse), Bool(TRUE), Bool(FALSE),
              Num(<<"4", "2">>), Num(<<"0">>), Num(<<"-", "7">>), Undefined}

DateYears == {1969, 1970, 1971, 2001}

\* Year-only date strings, and two strings that are no date.
DateInputs ==
    {Str(NatToStr(y)) : y \in DateYears} \cup {Str(<<>>), Str(<<"x">>)}

DataTypes == {"url", "boolean", "integer", "double", "datetime",
              "datetime-local", "text", "fieldset"}

InputsFor(dataType) ==
    IF dataType \in {"datetime", "datetime-local"} THEN DateInputs
    ELSE PlainInputs

Pending == [t |-> "pending"]

CodecIdle ==
    /\ cv = Undefined /\ ck = "idle" /\ cft = <<>>
    /\ viaArray = Pending /\ viaTop = Pending /\ viaChild = Pending
    /\ decoded = Pending

InitCodec ==
    /\ ck \in DataTypes
    /\ cv \in InputsFor(ck)
    /\ cft \in (IF ck = "url" THEN {StrSelect, StrFieldset} ELSE {StrSelect})
    /\ viaArray = Pending /\ viaTop = Pending /\ viaChild = Pending
    /\ decoded = Pending

\* An element of an array field is edited: createTypedValue(newValue, dataType).
EncodeArrayElement ==
    /\ ck # "idle" /\ viaArray = Pending
    /\ viaArray' = createTypedValue(cv, ck)
    /\ UNCHANGED <<cv, ck, cft, viaTop, viaChild, decoded>>
    /\ UNCHANGED <<resolverVars, fieldVars, formVars>>

\* A top-level field is edited: the newValue of handleFieldChange.
EncodeTopLevel ==
    /\ ck # "idle" /\ viaTop = Pending
    /\ viaTop' = HandleFieldChangeValue(cv, ck, cft)
    /\ UNCHANGED <<cv, ck, cft, viaArray, viaChild, decoded>>
    /\ UNCHANGED <<resolverVars, fieldVars, formVars>>

\* A child of a fieldset is edited: the processedValue of its onChange.
EncodeChild ==
    /\ ck # "idle" /\ viaChild = Pending
    /\ viaChild' = FieldsetProcessedValue(cv, ck)
    /\ UNCHANGED <<cv, ck, cft, viaArray, viaTop, decoded>>
    /\ UNCHANGED <<resolverVars, fieldVars, formVars>>

\* An array element is read back for its input: extractValue(item, dataType).
Decode ==
    /\ ck # "idle" /\ viaArray # Pending /\ decoded = Pending
    /\ decoded' = extractValue(viaArray, ck)
    /\ UNCHANGED <<cv, ck, cft, viaArray, viaTop, viaChild>>
    /\ UNCHANGED <<resolverVars, fieldVars, formVars>>

NextCodec ==
    \/ EncodeArrayElement
    \/ EncodeTopLevel
    \/ EncodeChild
    \/ Decode

---------------------------------------------------------------------------
(* Resolver runs: a column list and the schema files that exist.            *)

TypeBooleanUpper == <<"B", "O", "O", "L", "E", "A", "N">>
TypeDateTime == <<"d", "a", "t", "e", "T", "i", "m", "e">>
TypeConsignment == <<"C", "o", "n", "s", "i", "g", "n", "m", "e", "n", "t">>
TypeUnit == <<"U", "n", "i", "t">>
TypeCompany == <<"C", "o", "m", "p", "a", "n", "y">>

\* The columns the lists are drawn from.
ColumnPool ==
    {Column("goods", StrString, "Plain", FALSE, "iri:goods"),
     Column("count", TypeInteger, "Plain", FALSE, "iri:count"),
     Column("flag", TypeBooleanUpper, "Plain", FALSE, "iri:flag"),
     Column("weight", StrDouble, "Plain", TRUE, "iri:weight"),
     Column("when", TypeDateTime, "Plain", FALSE, "iri:when"),
     Column("ref", TypeConsignment, "Plain", FALSE, "iri:Consignment"),
     [Column("unit", TypeUnit, "Enum", FALSE, "iri:codes#Unit")
         EXCEPT !.codelist = TRUE],
     Column("kind", StrString, "Enum", TRUE, "iri:codes#Kind"),
     Column("addr", TypeAddress, "Embedded", FALSE, "iri:Address"),
     Column("owner", TypeCompany, "Embedded", TRUE, "iri:Company")}

\* Every schema file: Address has two scalar columns, Company embeds Address.
AllSchemas ==
    (TypeAddress :> <<Column("x", StrInteger, "Plain", FALSE, "iri:x"),
                      Column("y", StrString, "Plain", FALSE, "iri:y")>>)
    @@ (TypeCompany :> <<Column("name", StrString, "Plain", FALSE, "iri:name"),
                         Column("home", TypeAddress, "Embedded", FALSE,
                                "iri:Address")>>)

\* The schema files that exist: any of them may be missing.
SchemaStores ==
    {[t \in D |-> AllSchemas[t]] : D \in SUBSET (DOMAIN AllSchemas)}

ColumnLists == UNION {[1..n -> ColumnPool] : n \in 0..MaxCols}

ResolverIdle ==
    /\ rpc = "idle" /\ columns = <<>> /\ store = <<>> /\ fields = <<>>

InitResolver ==
    /\ rpc = "ready"
    /\ columns \in ColumnLists
    /\ store \in SchemaStores
    /\ fields = <<>>

\* generateFormFields(columns) runs to its end.
Resolve ==
    /\ rpc = "ready"
    /\ fields' = generateFormFields(columns, store)
    /\ rpc' = "done"
    /\ UNCHANGED <<columns, store>>
    /\ UNCHANGED <<codecVars, fieldVars, formVars>>

NextResolver == Resolve

---------------------------------------------------------------------------
(* Specifications. *)

InitCodecRun == InitCodec /\ ResolverIdle /\ FieldIdle /\ FormIdle

InitResolverRun == CodecIdle /\ InitResolver /\ FieldIdle /\ FormIdle

InitFieldRun == CodecIdle /\ ResolverIdle /\ InitField /\ FormIdle

InitFormRun == CodecIdle /\ ResolverIdle /\ FieldIdle /\ InitForm

SpecCodec == InitCodecRun /\ [][NextCodec]_vars

SpecResolver == InitResolverRun /\ [][NextResolver]_vars

SpecField == InitFieldRun /\ [][NextField]_vars

SpecForm == InitFormRun /\ [][NextForm]_vars

\* Any one of the four parts runs.
Init == InitCodecRun \/ InitResolverRun \/ InitFieldRun \/ InitFormRun

Next == NextCodec \/ NextResolver \/ NextField \/ NextForm

Spec == Init /\ [][Next]_vars

---------------------------------------------------------------------------
(* The claims. *)

\* C1: snapshot emission is debounced.  Apart from the call made on mount,
\* every onSubmit call is made after DebounceDelay units without a commit
\* and hands over the record as it then stands; while a burst of edits is
\* under way nothing of it has been delivered, and once the form is quiet
\* every burst has been delivered exactly once.
C1_Debounced ==
    mpc = "mounted" =>
        /\ \A i \in 2..Len(delivered) :
              /\ delivered[i].quiet >= DebounceDelay
              /\ delivered[i].snap = delivered[i].current
        /\ nBursts = 0 => Len(delivered) = 1
        /\ (nBursts > 0 /\ sinceEdit < DebounceDelay)
              => Len(delivered) = nBursts
        /\ (nBursts > 0 /\ sinceEdit >= DebounceDelay /\ timers = {})
              => /\ Len(delivered) = nBursts + 1
                 /\ queue = <<>> => delivered[Len(delivered)].snap = formData

\* C1, its case: one burst of three commits spread over time has been
\* delivered once, as the record after its last edit.
C1_Witness ==
    /\ mpc = "mounted" /\ nBursts = 1 /\ formData.id = 3 /\ burstSpan > 0
    /\ Len(delivered) = 2 /\ delivered[2].snap = formData
    /\ formData.data # initialData

C3_FlagTracksMembership ==
    (fpc = "live" /\ lastLoad # "none" /\ ~loading /\ ~switched) =>
        /\ (value # "" /\ ~SomeOption(referenceOptions, value))
              => useDirectInput
        /\ SomeOption(referenceOptions, value) => ~useDirectInput

\* C4: setFormData calls are applied in the order issued.  Once the queue
\* is applied, every field that was written holds the encoding of the last
\* value written to it, and every other field holds its initial value.
C4_LastWriteWins ==
    (mpc = "mounted" /\ queue = <<>>) =>
        \A n \in FieldNames :
            formData.data[n] =
                IF ~written[n].set THEN initialData[n]
                ELSE IF IsArray(written[n].raw) THEN written[n].raw
                ELSE HandleFieldChangeValue(written[n].raw,
                                            written[n].dataType,
                                            written[n].type)

\* C4, its case: one render applied two writes of one field, the second of
\* which stands, while a field written before keeps its value.
C4_Witness ==
    /\ mpc = "mounted" /\ queue = <<>> /\ Len(lastBatch) = 2
    /\ lastBatch[1].name = "count" /\ lastBatch[2].name = "count"
    /\ lastBatch[1].val # lastBatch[2].val
    /\ formData.data["count"] = lastBatch[2].val
    /\ written["ref"].set /\ formData.data["ref"] = IdObject(Str(<<"A">>))

\* C5: an Embedded column whose schema cannot be loaded has no descriptor
\* in the result, and every other column has one.
C5_FailedFieldOmitted ==
    rpc = "done" =>
        \A i \in 1..Len(columns) :
            IF columns[i].schemaType = "Embedded"
               /\ columns[i].type \notin DOMAIN store
            THEN \A k \in 1..Len(fields) : fields[k].name # columns[i].name
            ELSE \E k \in 1..Len(fields) : fields[k].name = columns[i].name

\* a and b are the same string but for the case of their letters.
SameIgnoringCase(a, b) ==
    /\ Len(a) = Len(b)
    /\ \A i \in 1..Len(a) :
          \/ a[i] = b[i]
          \/ \E j \in 1..26 : {a[i], b[i]} = {UpperChars[j], LowerChars[j]}

\* The scalar kind named by a basic type.
ScalarKindOf(type) ==
    CHOOSE k \in {"text", "boolean", "integer", "double", "datetime-local"} :
        \/ k = "text" /\ SameIgnoringCase(type, StrString)
        \/ k = "boolean" /\ SameIgnoringCase(type, StrBoolean)
        \/ k = "integer" /\ SameIgnoringCase(type, StrInteger)
        \/ k = "double" /\ SameIgnoringCase(type, StrDouble)
        \/ k = "datetime-local" /\ SameIgnoringCase(type, StrDatetime)

\* The descriptor f is the one the classification rules give the column.
RECURSIVE Classified(_, _, _)
Classified(column, f, schemas) ==
    /\ f.name = column.name
    /\ f.array = column.array
    /\ CASE column.schemaType = "Embedded" ->
              /\ f.dataType = "fieldset"
              /\ column.type \in DOMAIN schemas =>
                    /\ "fields" \in DOMAIN f
                    /\ Len(f.fields) = Len(schemas[column.type])
                    /\ \A j \in 1..Len(f.fields) :
                          Classified(schemas[column.type][j], f.fields[j],
                                     schemas)
         [] column.schemaType = "Enum" ->
              /\ f.dataType = "url"
              /\ f.options = <<>>
              /\ "referenceType" \notin DOMAIN f
         [] OTHER ->
              IF \E b \in basicTypes : SameIgnoringCase(column.type, b)
              THEN /\ f.dataType = ScalarKindOf(column.type)
                   /\ "referenceType" \notin DOMAIN f
              ELSE /\ f.dataType = "url"
                   /\ f.referenceType = column.type

\* C6: the descriptors come in the order of the columns, one per column,
\* each classified by its column alone: Embedded gives a fieldset whose
\* children are the classified columns of the embedded schema, in order;
\* Enum gives a reference without options; a basic type, whatever its case,
\* gives the scalar of that kind; any other type gives a reference to that
\* type; array is copied.
C6_Classification ==
    rpc = "done" =>
        /\ Len(fields) = Len(columns)
        /\ \A i \in 1..Len(columns) : Classified(columns[i], fields[i], store)

\* C6, its case: an Embedded column with its two scalar children in order,
\* next to a Plain column of another object's type and a mixed-case scalar.
C6_Witness ==
    /\ rpc = "done" /\ Len(fields) = 3
    /\ fields[1].dataType = "fieldset" /\ "fields" \in DOMAIN fields[1]
    /\ Len(fields[1].fields) = 2
    /\ fields[1].fields[1].name = "x" /\ fields[1].fields[2].name = "y"
    /\ fields[2].dataType = "url" /\ "referenceType" \in DOMAIN fields[2]
    /\ fields[2].referenceType = TypeConsignment
    /\ fields[3].type = TypeBooleanUpper /\ fields[3].dataType = "boolean"

ScalarDataTypes == {"boolean", "integer", "double", "datetime-local", "url"}

\* C8: for a field of a scalar kind and a string typed in, a top-level edit,
\* an edit of a fieldset's child and an edit of an array element store the
\* same typed value; an integer is tagged with the XSD integer IRI and holds
\* the numeral of parseInt.
C8_SameEncodingOnEveryPath ==
    (ck \in ScalarDataTypes /\ cv.t = "str" /\ cft # StrFieldset
     /\ viaTop # Pending /\ viaChild # Pending /\ viaArray # Pending) =>
        /\ viaTop = viaChild
        /\ viaChild = viaArray
        /\ ck = "integer" =>
              viaTop = Literal(XsdInteger, JsString(ParseInt(cv)))

\* C9: a load that fails leaves an empty option list and no loading flag,
\* and does not touch the value; the field stays in use.
C9_FailedLoadNotFatal ==
    [][(inflight.pending /\ ~inflight'.pending /\ lastLoad' = "failed")
          => /\ referenceOptions' = <<>>
             /\ loading' = FALSE
             /\ value' = value
             /\ fpc' = "live"]_vars

\* C9, its case: a load has failed after an earlier one had filled the
\* list, for a field that holds a value.
C9_Witness ==
    /\ fpc = "live" /\ lastLoad = "failed" /\ ~inflight.pending
    /\ value = "A" /\ referenceOptions = <<>> /\ ~loading /\ useDirectInput

\* C10: at most one debounce timer is pending, and once the form is
\* unmounted no timer is left and onSubmit is not called again.
C10_SingleShot ==
    [][/\ Cardinality(timers') <= 1
       /\ mpc' = "unmounted" => (timers' = {} /\ delivered' = delivered)]_vars

\* C10, its case: the form was unmounted within the window of a burst,
\* the window has since run out, and the burst was never delivered.
C10_Witness ==
    /\ mpc = "unmounted" /\ nBursts = 1 /\ Len(delivered) = 1
    /\ sinceEdit >= DebounceDelay /\ formData.id # debouncedFormData.id

=============================================================================
